---- MODULE Spec2Model ----
(***************************************************************************)
(* Midas Pro MCP server: the endpoint catalog (src/src/endpoints.ts, the   *)
(* first half), the console client MidasOscClient (the second half of the  *)
(* same file) and the live-control tool handlers (src/unnamed/part_000).   *)
(*                                                                         *)
(* Numbers are fixed-point: a JavaScript number v is the integer v * One,  *)
(* One being 10^8, so that 0.0000001 is 10 and values below it exist.      *)
(* NaN is not in the domain: the tool schema (z.number()) and JSON reject  *)
(* it.  Time is Date.now() in milliseconds.                                *)
(***************************************************************************)
EXTENDS Integers, Sequences, FiniteSets, TLC

VARIABLES
    client,          \* MidasOscClient.client: id of the outbound channel, or NoClient
    listener,        \* MidasOscClient.listener: id of the inbound listener, or NoClient
    config,          \* MidasOscClient.config: a ConnectionConfig, or NoConfig
    responseBuffer,  \* MidasOscClient.responseBuffer: address -> OscResponse or NoResponse
    openClients,     \* ids of the outbound channels that are open (new Client, not yet closed)
    openListeners,   \* ids of the listeners that are open (new Server, not yet closed)
    created,         \* number of sessions created so far (ids are never reused)
    connecting,      \* the connect() call in progress (awaiting its disconnect), or idle
    disconnecting,   \* the disconnect() calls in progress, one per caller slot
    reads,           \* the getValue() calls in progress, one per caller slot
    queries,         \* number of queries getValue has sent so far (ghost: numbers the queries)
    inflight,        \* replies of the console not yet delivered: query number -> address or NoPath
    now,             \* Date.now()
    wire,            \* the message the last step handed to client.send, or NoMessage
    ret              \* the call that returned in the last step with its outcome, or NoReturn

vars == <<client, listener, config, responseBuffer, openClients, openListeners,
          created, connecting, disconnecting, reads, queries, inflight, now, wire, ret>>

(***************************************************************************)
(* Bounds of the model.                                                    *)
(***************************************************************************)
MaxSessions == 2
MaxQueries == 2
MaxTicks == 2
TickMs == 50

(***************************************************************************)
(* Program constants.                                                      *)
(***************************************************************************)
NoClient == 0
NoIndex == -1
One == 100000000
FaderMin == 10
FaderMax == 99999990
PollMs == 50
DefaultTimeoutMs == 2000

NoPath == ""
NoConfig == [ip |-> "", port |-> 0, listenPort |-> 0]

(***************************************************************************)
(* Endpoint catalog                                                        *)
(***************************************************************************)
EndpointSpec(mp, ty, at, d) ==
    [found |-> TRUE, multiPath |-> mp, type |-> ty, argumentType |-> at, description |-> d]

\* getEndpointInfo's null
NotFound ==
    [found |-> FALSE, multiPath |-> FALSE, type |-> "null", argumentType |-> "null",
     description |-> ""]

\* A value that is not an EndpointSpec (a member of Object.prototype reached by the
\* property lookup): every field read on it is undefined.
ForeignValue ==
    [found |-> TRUE, multiPath |-> FALSE, type |-> "undefined",
     argumentType |-> "undefined", description |-> "undefined"]

\* pro-series-endpoints.json, as loaded by getMainEndpoints
MainTable ==
    << [group |-> "enVirtualMicInputs", endpoints |->
          << [endpoint |-> "enFader",
              spec |-> EndpointSpec(TRUE, "enPPCFaderMessage", "float", "Channel fader")],
             [endpoint |-> "enPan",
              spec |-> EndpointSpec(FALSE, "enPPCRotaryMessage", "float", "Pan")],
             [endpoint |-> "enMute",
              spec |-> EndpointSpec(TRUE, "enPPCSwitchMessage", "integer", "Mute")],
             [endpoint |-> "enPathname",
              spec |-> EndpointSpec(TRUE, "enPPCStringMessage", "string", "Channel name")],
             [endpoint |-> "enMeter",
              spec |-> EndpointSpec(TRUE, "enPPCMeterMessage", "null", "(unknown)")] >>],
       [group |-> "enGlobals", endpoints |->
          << [endpoint |-> "enRebootConsole",
              spec |-> EndpointSpec(FALSE, "enPPCSwitchMessage", "integer", "Reboot")],
             [endpoint |-> "enResetGlobalsToDefault",
              spec |-> EndpointSpec(FALSE, "enPPCOtherMessage", "string", "Factory reset")] >>],
       [group |-> "enVirtualInternalFX", endpoints |->
          << [endpoint |-> "enOldParam",
              spec |-> EndpointSpec(FALSE, "enPPCRotaryMessage", "float", "Old")] >>] >>

\* pro-series-internal-fx-parameters-endpoints.json, as loaded by getFxEndpoints
FxTable ==
    << [group |-> "enVirtualInternalFX", endpoints |->
          << [endpoint |-> "enDelayTime",
              spec |-> EndpointSpec(TRUE, "enPPCRotaryMessage", "float", "Delay time")] >>],
       [group |-> "enVirtualFXReturns", endpoints |->
          << [endpoint |-> "enFader",
              spec |-> EndpointSpec(TRUE, "enPPCFaderMessage", "float", "(unknown)")] >>] >>

getMainEndpoints == MainTable

getFxEndpoints == FxTable

Keys(table) == {table[i].group : i \in 1..Len(table)}

Entry(table, group) == table[CHOOSE i \in 1..Len(table) : table[i].group = group]

\* A merge in which the table loaded first wins
getAllEndpointsMainWins ==
    getMainEndpoints
    \o SelectSeq(getFxEndpoints, LAMBDA e : e.group \notin Keys(getMainEndpoints))

\* { ...getMainEndpoints(), ...getFxEndpoints() }: a key keeps the place of its first
\* insertion and takes the value of its last.
getAllEndpoints ==
    [i \in 1..Len(getMainEndpoints) |->
        IF getMainEndpoints[i].group \in Keys(getFxEndpoints)
        THEN Entry(getFxEndpoints, getMainEndpoints[i].group)
        ELSE getMainEndpoints[i]]
    \o SelectSeq(getFxEndpoints, LAMBDA e : e.group \notin Keys(getMainEndpoints))

\* Names every object inherits from Object.prototype; the value found under them is
\* a function, which has these and a few own properties.
ObjectPrototypeKeys == {"constructor", "toString"}

FunctionKeys == ObjectPrototypeKeys \cup {"name", "length"}

EndpointKeys(endpoints) == {endpoints[i].endpoint : i \in 1..Len(endpoints)}

EndpointEntry(endpoints, endpoint) ==
    endpoints[CHOOSE i \in 1..Len(endpoints) : endpoints[i].endpoint = endpoint]

\* all[group]?.[endpoint] ?? null
getEndpointInfo(group, endpoint) ==
    LET all == getAllEndpoints IN
    IF group \in Keys(all)
    THEN LET endpoints == Entry(all, group).endpoints IN
         IF endpoint \in EndpointKeys(endpoints)
         THEN EndpointEntry(endpoints, endpoint).spec
         ELSE IF endpoint \in ObjectPrototypeKeys THEN ForeignValue ELSE NotFound
    ELSE IF group \in ObjectPrototypeKeys /\ endpoint \in FunctionKeys
         THEN ForeignValue
         ELSE NotFound

buildOscPath(group, endpoint, index) ==
    LET spec == getEndpointInfo(group, endpoint) IN
    IF ~spec.found THEN NoPath
    ELSE LET path == "/" \o spec.type \o "/" \o group \o "/" \o endpoint IN
         IF spec.multiPath /\ index # NoIndex
         THEN path \o "/" \o ToString(index)
         ELSE path

\* Object.entries(all) with Object.entries(endpoints) inside: the (group, endpoint,
\* spec) triples in iteration order (own keys only, in insertion order).
RECURSIVE ObjectEntries(_, _)
ObjectEntries(all, i) ==
    IF i > Len(all) THEN <<>>
    ELSE [j \in 1..Len(all[i].endpoints) |->
             [group |-> all[i].group, endpoint |-> all[i].endpoints[j].endpoint,
              spec |-> all[i].endpoints[j].spec]]
         \o ObjectEntries(all, i + 1)

\* listGroups(): one GroupInfo per entry of the merged table, in iteration order;
\* messageTypes counts the group's endpoints by type.
listGroups ==
    LET all == getAllEndpoints IN
    [i \in 1..Len(all) |->
        LET endpoints == all[i].endpoints IN
        [name |-> all[i].group,
         endpointCount |-> Len(endpoints),
         messageTypes |->
            [type \in {endpoints[j].spec.type : j \in 1..Len(endpoints)} |->
                Cardinality({j \in 1..Len(endpoints) : endpoints[j].spec.type = type})]]]

\* listEndpoints(group): null when all[group] is falsy, else the entries of what was
\* found; a member of Object.prototype is found and has no entries of its own.
listEndpoints(group) ==
    LET all == getAllEndpoints IN
    IF group \in Keys(all)
    THEN [found |-> TRUE,
          list |-> [j \in 1..Len(Entry(all, group).endpoints) |->
                       [endpoint |-> Entry(all, group).endpoints[j].endpoint,
                        spec |-> Entry(all, group).endpoints[j].spec]]]
    ELSE IF group \in ObjectPrototypeKeys
         THEN [found |-> TRUE, list |-> <<>>]
         ELSE [found |-> FALSE, list |-> <<>>]

Whitespace == {" "}

CharAt(s, i) == SubSeq(s, i, i)

\* String.prototype.toLowerCase
RECURSIVE ToLowerCase(_)
ToLowerCase(s) ==
    LET UpperCase == "ABCDEFGHIJKLMNOPQRSTUVWXYZ"
        LowerCase == "abcdefghijklmnopqrstuvwxyz"
        c == CharAt(s, 1)
        lower == IF \E i \in 1..Len(UpperCase) : CharAt(UpperCase, i) = c
                 THEN CharAt(LowerCase,
                             CHOOSE i \in 1..Len(UpperCase) : CharAt(UpperCase, i) = c)
                 ELSE c
    IN IF Len(s) = 0 THEN "" ELSE lower \o ToLowerCase(SubSeq(s, 2, Len(s)))

\* String.prototype.includes
Includes(s, term) ==
    \/ Len(term) = 0
    \/ \E i \in 1..(Len(s) - Len(term) + 1) : SubSeq(s, i, i + Len(term) - 1) = term

\* A split that leaves the string whole
SplitNothing(s) == <<s>>

\* The length of the run of whitespace (or of anything else) at the start of s
RECURSIVE Run(_, _)
Run(s, white) ==
    IF Len(s) = 0 \/ ((CharAt(s, 1) \in Whitespace) # white) THEN 0
    ELSE 1 + Run(SubSeq(s, 2, Len(s)), white)

\* String.prototype.split(/\s+/): the pieces between the runs of whitespace, the
\* empty piece before a leading run and after a trailing one included.
RECURSIVE Split(_)
Split(s) ==
    LET word == Run(s, FALSE)
        rest == SubSeq(s, word + 1, Len(s))
        gap == Run(rest, TRUE)
    IN IF gap = 0 THEN <<SubSeq(s, 1, word)>>
       ELSE <<SubSeq(s, 1, word)>> \o Split(SubSeq(rest, gap + 1, Len(rest)))

\* The options of a search: "" is a filter that was not given (or given empty)
NoOptions == [group |-> "", type |-> ""]

\* searchEndpoints(query, options)
searchEndpoints(query, options) ==
    LET terms == Split(ToLowerCase(query))
        \* [groupName, endpointName, spec.description, spec.type].join(" ")
        Join(fields) ==
            fields[1] \o " " \o fields[2] \o " " \o fields[3] \o " " \o fields[4]
        SearchResult(entry) ==
            [group |-> entry.group, endpoint |-> entry.endpoint, spec |-> entry.spec,
             oscPath |-> "/" \o entry.spec.type \o "/" \o entry.group
                         \o "/" \o entry.endpoint]
        Kept(entry) ==
            /\ ~(options.group # "" /\ entry.group # options.group)
            /\ ~(options.type # "" /\ entry.spec.type # options.type)
            /\ LET searchable == ToLowerCase(Join(<<entry.group, entry.endpoint,
                                                    entry.spec.description,
                                                    entry.spec.type>>))
               IN \A k \in 1..Len(terms) : Includes(searchable, terms[k])
        kept == SelectSeq(ObjectEntries(getAllEndpoints, 1), Kept)
    IN [k \in 1..Len(kept) |-> SearchResult(kept[k])]

(***************************************************************************)
(* Values and messages                                                     *)
(***************************************************************************)
NumberValue(n) == [kind |-> "number", num |-> n, str |-> ""]

StringValue(s) == [kind |-> "string", num |-> 0, str |-> s]

\* One typed argument of an OSC message: type "f", "i" or "s".
Arg(type, value) == [type |-> type, num |-> value.num, str |-> value.str]

\* new Message(path), and msg.append(arg)
Message(path, args) == [address |-> path, args |-> args]

NoMessage == Message(NoPath, <<>>)

MathMax(a, b) == IF a >= b THEN a ELSE b

MathMin(a, b) == IF a <= b THEN a ELSE b

\* Math.trunc in the place of Math.round
MathTrunc(n) == IF n >= 0 THEN (n \div One) * One ELSE -(((-n) \div One) * One)

\* Math.round: the nearest integer, a tie going up (floor(v + 0.5))
MathRound(n) == ((2 * n + One) \div (2 * One)) * One

Digits(f, width) ==
    LET RECURSIVE Pad(_, _)
        Pad(g, w) == IF w = 0 THEN "" ELSE Pad(g \div 10, w - 1) \o ToString(g % 10)
        RECURSIVE Strip(_, _)
        Strip(g, w) == IF g % 10 = 0 THEN Strip(g \div 10, w - 1) ELSE Pad(g, w)
    IN Strip(f, width)

\* String(value) of a number: decimal notation, exponent notation below 1e-6
NumberToString(n) ==
    LET a == IF n < 0 THEN -n ELSE n
        sign == IF n < 0 THEN "-" ELSE ""
    IN IF a = 0 THEN "0"
       ELSE IF a < 10 THEN sign \o ToString(a) \o "e-8"
       ELSE IF a < 100
            THEN sign \o ToString(a \div 10)
                 \o (IF a % 10 = 0 THEN "" ELSE "." \o ToString(a % 10)) \o "e-7"
       ELSE sign \o ToString(a \div One)
            \o (IF a % One = 0 THEN "" ELSE "." \o Digits(a % One, 8))

\* String(value)
String(value) == IF value.kind = "string" THEN value.str ELSE NumberToString(value.num)

DANGEROUS_ENDPOINTS == {"enRebootConsole", "enResetGlobalsToDefault"}

isDangerous(endpoint) == endpoint \in DANGEROUS_ENDPOINTS

isConnected == client # NoClient

connectionInfo == config


(***************************************************************************)
(* Console client: state                                                   *)
(***************************************************************************)
ReadSlots == {1, 2}

\* The caller of the specifications with one getValue at a time
Readers == {1}

DisconnectSlots == {1, 2}

EmptyBuffer == << >>

\* A ResponseBuffer entry {address, args, timestamp}.  Three ghost fields say where
\* the message came from: the listener that received it, the query it answers
\* (0: none, the console sent it unasked) and how many queries had been sent when
\* it was received.
OscResponse(address, args, timestamp, session, reply, epoch) ==
    [address |-> address, args |-> args, timestamp |-> timestamp,
     session |-> session, reply |-> reply, epoch |-> epoch]

NoResponse == OscResponse(NoPath, <<>>, 0, 0, 0, 0)

\* Map.get, Map.set, Map.delete
BufferGet(buffer, path) == IF path \in DOMAIN buffer THEN buffer[path] ELSE NoResponse

BufferSet(buffer, path, response) ==
    [a \in DOMAIN buffer \cup {path} |-> IF a = path THEN response ELSE buffer[a]]

BufferDelete(buffer, path) == [a \in DOMAIN buffer \ {path} |-> buffer[a]]

\* A clear that leaves the entries in place
ClearKept(buffer) == buffer

\* Map.clear
Clear(buffer) == EmptyBuffer

IdleConnect == [pc |-> "idle", cfg |-> NoConfig, chan |-> NoClient]

IdleDisconnect == [pc |-> "idle", chan |-> NoClient]

\* A getValue call: where it is (idle, sending: awaiting client.send, sleep: awaiting
\* the 50 ms timer), its locals (path, timeoutMs, deadline), the time its timer is
\* due, and ghosts: the number of its query, the channel it was sent on, whether the
\* get_value tool made the call, the entry the call discarded when it began, and
\* whether the listener has stored a message for its address since it began.
IdleRead ==
    [pc |-> "idle", path |-> NoPath, timeoutMs |-> 0, deadline |-> 0, wake |-> 0,
     query |-> 0, chan |-> NoClient, tool |-> FALSE, stale |-> NoResponse,
     heard |-> FALSE]

NoCall == [group |-> "", endpoint |-> "", index |-> NoIndex, value |-> StringValue("")]

Call(group, endpoint, index, value) ==
    [group |-> group, endpoint |-> endpoint, index |-> index, value |-> value]

\* The result of a catalog function: whether it is something other than null, and
\* the EndpointSpec, the path or the list that it is.
Result(found, spec, path, list) ==
    [found |-> found, spec |-> spec, path |-> path, list |-> list]

NoResult == Result(FALSE, NotFound, NoPath, <<>>)

\* What a call returned: the operation, its arguments, its outcome, and for a
\* getValue the response and the call's record as it ended; for a connect the
\* config it was given and the channel its disconnect closed; for a disconnect
\* the channel it closed.
Return(op, call, outcome, response, read) ==
    [op |-> op, call |-> call, outcome |-> outcome, response |-> response, read |-> read,
     cfg |-> NoConfig, closed |-> NoClient, query |-> "", options |-> NoOptions,
     result |-> NoResult]

\* What a catalog function returned.
CatalogReturn(op, call, query, options, result) ==
    [Return(op, call, "", NoResponse, IdleRead)
        EXCEPT !.query = query, !.options = options, !.result = result]

ConnectReturn(cfg, closed, outcome) ==
    [Return("connect", NoCall, outcome, NoResponse, IdleRead)
        EXCEPT !.cfg = cfg, !.closed = closed]

NoReturn == Return("", NoCall, "", NoResponse, IdleRead)

\* Failures, with the read that found nothing counted as one
ErrorsAndNoResponse ==
    {"NotConnected", "InvalidEndpoint", "ReadOnly", "TypeMismatch", "PathFailure",
     "TransportFailure", "Blocked", "NotFound", "NoResponse"}

\* The outcomes that are failures: a client method threw, a handler answered isError.
Errors ==
    {"NotConnected", "InvalidEndpoint", "ReadOnly", "TypeMismatch", "PathFailure",
     "TransportFailure", "Blocked", "NotFound"}

isError(return) == return.outcome \in Errors

Init ==
    /\ client = NoClient
    /\ listener = NoClient
    /\ config = NoConfig
    /\ responseBuffer = EmptyBuffer
    /\ openClients = {}
    /\ openListeners = {}
    /\ created = 0
    /\ connecting = IdleConnect
    /\ disconnecting = [d \in DisconnectSlots |-> IdleDisconnect]
    /\ reads = [s \in ReadSlots |-> IdleRead]
    /\ queries = 0
    /\ inflight = [q \in {} |-> NoPath]
    /\ now = 0
    /\ wire = NoMessage
    /\ ret = NoReturn

(***************************************************************************)
(* connect and disconnect                                                  *)
(***************************************************************************)
\* A connect body that forgets its config
OpenSessionWithoutConfig(cfg) ==
    /\ config' = NoConfig
    /\ client' = created + 1
    /\ listener' = created + 1
    /\ created' = created + 1

\* The body of connect after its disconnect: a new Client and a new Server.
OpenSession(cfg) ==
    /\ config' = cfg
    /\ client' = created + 1
    /\ listener' = created + 1
    /\ created' = created + 1

\* connect(ip, port, listenPort), up to its first await.  Calls are serialized by
\* the caller: one is in progress at a time.
Connect(cfg) ==
    /\ connecting.pc = "idle"
    /\ created < MaxSessions
    /\ IF client # NoClient
       THEN /\ connecting' = [pc |-> "closing", cfg |-> cfg, chan |-> client]
            /\ ret' = NoReturn
            /\ UNCHANGED <<client, listener, config, openClients, openListeners, created>>
       ELSE /\ OpenSession(cfg)
            /\ openClients' = openClients \cup {created + 1}
            /\ openListeners' = openListeners \cup {created + 1}
            /\ ret' = ConnectReturn(cfg, NoClient, "ok")
            /\ UNCHANGED connecting
    /\ wire' = NoMessage
    /\ UNCHANGED <<responseBuffer, disconnecting, reads, queries, inflight, now>>

\* A failed close that is swallowed
CloseFailureSwallowed == "ok"

\* The outcome of a connect or disconnect whose await of client.close() rejected:
\* nothing catches it, the call rejects with it.
CloseFailure == "TransportFailure"

\* A close that leaves the socket open
CloseNothing(open, id) == open

\* client.close() / listener.close(): the socket is no longer open
Close(open, id) == open \ {id}

\* connect resumed: client.close() of its disconnect() settled.  On success the
\* rest of disconnect and the body of connect run without another await.
ConnectResume(closed) ==
    /\ connecting.pc = "closing"
    /\ connecting' = IdleConnect
    /\ IF closed
       THEN /\ OpenSession(connecting.cfg)
            /\ openClients' = Close(openClients, connecting.chan) \cup {created + 1}
            /\ openListeners' = Close(openListeners, listener) \cup {created + 1}
            /\ responseBuffer' = Clear(responseBuffer)
            /\ ret' = ConnectReturn(connecting.cfg, connecting.chan, "ok")
       ELSE /\ ret' = ConnectReturn(connecting.cfg, NoClient, CloseFailure)
            /\ UNCHANGED <<client, listener, config, responseBuffer, openClients,
                           openListeners, created>>
    /\ wire' = NoMessage
    /\ UNCHANGED <<disconnecting, reads, queries, inflight, now>>

\* disconnect(), up to its first await; with no client there is none.
Disconnect(d) ==
    /\ disconnecting[d].pc = "idle"
    /\ IF client # NoClient
       THEN /\ disconnecting' = [disconnecting EXCEPT ![d] = [pc |-> "closing", chan |-> client]]
            /\ ret' = NoReturn
            /\ UNCHANGED <<listener, config, responseBuffer, openListeners>>
       ELSE /\ openListeners' = Close(openListeners, listener)
            /\ listener' = NoClient
            /\ config' = NoConfig
            /\ responseBuffer' = Clear(responseBuffer)
            /\ ret' = Return("disconnect", NoCall, "ok", NoResponse, IdleRead)
            /\ UNCHANGED disconnecting
    /\ wire' = NoMessage
    /\ UNCHANGED <<client, openClients, created, connecting, reads, queries, inflight, now>>

\* disconnect resumed: client.close() settled.
DisconnectResume(d, closed) ==
    /\ disconnecting[d].pc = "closing"
    /\ disconnecting' = [disconnecting EXCEPT ![d] = IdleDisconnect]
    /\ IF closed
       THEN /\ openClients' = Close(openClients, disconnecting[d].chan)
            /\ client' = NoClient
            /\ openListeners' = Close(openListeners, listener)
            /\ listener' = NoClient
            /\ config' = NoConfig
            /\ responseBuffer' = Clear(responseBuffer)
            /\ ret' = [Return("disconnect", NoCall, "ok", NoResponse, IdleRead)
                          EXCEPT !.closed = disconnecting[d].chan]
       ELSE /\ ret' = Return("disconnect", NoCall, CloseFailure, NoResponse, IdleRead)
            /\ UNCHANGED <<client, listener, config, responseBuffer, openClients,
                           openListeners>>
    /\ wire' = NoMessage
    /\ UNCHANGED <<created, connecting, reads, queries, inflight, now>>


(***************************************************************************)
(* setValue                                                                *)
(***************************************************************************)
Throw(error) == [threw |-> TRUE, error |-> error, message |-> NoMessage]

Send(message) == [threw |-> FALSE, error |-> "", message |-> message]

\* ClampFader with the bounds of the other float messages
ClampFaderClosed(n) == MathMax(0, MathMin(One, n))

\* Fader messages: Math.max(0.0000001, Math.min(0.9999999, value))
ClampFader(n) == MathMax(FaderMin, MathMin(FaderMax, n))

\* Other float messages: Math.max(0, Math.min(1, value))
ClampUnit(n) == MathMax(0, MathMin(One, n))

\* The float case of setValue's switch
EncodeFloat(spec, path, value) ==
    IF value.kind # "number" THEN Throw("TypeMismatch")
    ELSE IF spec.type = "enPPCFaderMessage"
         THEN Send(Message(path, <<Arg("f", NumberValue(ClampFader(value.num)))>>))
         ELSE Send(Message(path, <<Arg("f", NumberValue(ClampUnit(value.num)))>>))

\* An integer case that sends whatever it is given
EncodeIntegerUnchecked(spec, path, value) ==
    Send(Message(path, <<Arg("i", value)>>))

\* The integer case
EncodeInteger(spec, path, value) ==
    IF value.kind # "number" THEN Throw("TypeMismatch")
    ELSE Send(Message(path, <<Arg("i", NumberValue(MathRound(value.num)))>>))

\* The string case
EncodeString(spec, path, value) ==
    Send(Message(path, <<Arg("s", StringValue(String(value)))>>))

\* setValue without its read-only test
ReadOnlySkipped(spec) == FALSE

\* The read-only test of setValue: spec.argumentType === null
ReadOnly(spec) == spec.argumentType = "null"

\* setValue up to client.send: what it throws, or the message it hands to send.
setValue(group, endpoint, value, index) ==
    IF client = NoClient THEN Throw("NotConnected")
    ELSE LET spec == getEndpointInfo(group, endpoint) IN
         IF ~spec.found THEN Throw("InvalidEndpoint")
         ELSE IF ReadOnly(spec) THEN Throw("ReadOnly")
         ELSE LET path == buildOscPath(group, endpoint, index) IN
              IF path = NoPath THEN Throw("PathFailure")
              ELSE CASE spec.argumentType = "float" -> EncodeFloat(spec, path, value)
                     [] spec.argumentType = "integer" -> EncodeInteger(spec, path, value)
                     [] spec.argumentType = "string" -> EncodeString(spec, path, value)
                     [] OTHER -> Send(Message(path, <<>>))

\* The outcome of a call that got as far as client.send: the send's own.
Sent(result, sendOk) ==
    IF result.threw THEN result.error ELSE IF sendOk THEN "ok" ELSE "TransportFailure"

\* midasClient.setValue called directly.
SetValue(group, endpoint, value, index, sendOk) ==
    LET result == setValue(group, endpoint, value, index) IN
    /\ wire' = result.message
    /\ ret' = Return("setValue", Call(group, endpoint, index, value),
                     Sent(result, sendOk), NoResponse, IdleRead)
    /\ UNCHANGED <<client, listener, config, responseBuffer, openClients, openListeners,
                   created, connecting, disconnecting, reads, queries, inflight, now>>

\* A gate that knows one of the two names
GateReboot(endpoint) == endpoint = "enRebootConsole"

\* The safety gate of the set_value handler
Gate(endpoint) == isDangerous(endpoint)

\* The set_value handler: what it answers and the message it has sent.
set_value(group, endpoint, value, index, sendOk) ==
    IF ~isConnected THEN [outcome |-> "NotConnected", message |-> NoMessage]
    ELSE IF Gate(endpoint) THEN [outcome |-> "Blocked", message |-> NoMessage]
    ELSE IF ~getEndpointInfo(group, endpoint).found
         THEN [outcome |-> "NotFound", message |-> NoMessage]
         ELSE LET result == setValue(group, endpoint, value, index) IN
              [outcome |-> IF Sent(result, sendOk) = "ok" THEN "Sent"
                           ELSE Sent(result, sendOk),
               message |-> result.message]

\* The set_value tool invoked.
SetValueTool(group, endpoint, value, index, sendOk) ==
    LET answer == set_value(group, endpoint, value, index, sendOk) IN
    /\ wire' = answer.message
    /\ ret' = Return("set_value", Call(group, endpoint, index, value),
                     answer.outcome, NoResponse, IdleRead)
    /\ UNCHANGED <<client, listener, config, responseBuffer, openClients, openListeners,
                   created, connecting, disconnecting, reads, queries, inflight, now>>


(***************************************************************************)
(* getValue                                                                *)
(***************************************************************************)
ReadOp(read) == IF read.tool THEN "get_value" ELSE "getValue"

\* getValue (and the get_value handler around it) returns.
ReadReturns(s, read, outcome, response) ==
    /\ reads' = [reads EXCEPT ![s] = IdleRead]
    /\ ret' = Return(ReadOp(read), NoCall, outcome, response, read)

\* A freshness test no stored response passes
FreshLater(response, timeoutMs) == response.timestamp > now

\* The freshness test of the poll loop: response.timestamp > Date.now() - timeoutMs
Fresh(response, timeoutMs) == response.timestamp > now - timeoutMs

\* A poll loop that gives up when the client has no channel
PollWhileConnected(s, read) ==
    IF client # NoClient /\ now < read.deadline
    THEN IF read.path \in DOMAIN responseBuffer
            /\ Fresh(responseBuffer[read.path], read.timeoutMs)
         THEN ReadReturns(s, read, "Response", responseBuffer[read.path])
         ELSE /\ reads' = [reads EXCEPT ![s] = [read EXCEPT !.pc = "sleep",
                                                            !.wake = now + PollMs]]
              /\ ret' = NoReturn
    ELSE ReadReturns(s, read, "NoResponse", NoResponse)

\* One turn of the poll loop, from its test to a return or to the 50 ms timer.
Poll(s, read) ==
    IF now < read.deadline
    THEN IF read.path \in DOMAIN responseBuffer
            /\ Fresh(responseBuffer[read.path], read.timeoutMs)
         THEN ReadReturns(s, read, "Response", responseBuffer[read.path])
         ELSE /\ reads' = [reads EXCEPT ![s] = [read EXCEPT !.pc = "sleep",
                                                            !.wake = now + PollMs]]
              /\ ret' = NoReturn
    ELSE ReadReturns(s, read, "NoResponse", NoResponse)

\* A query that carries a value
QueryWithArgument(path) == Message(path, <<Arg("i", NumberValue(0))>>)

\* The query getValue sends: new Message(path), the bare address
Query(path) == Message(path, <<>>)

\* A getValue that empties the buffer
DiscardAll(buffer, path) == EmptyBuffer

\* A getValue that keeps the entry it finds
DiscardNothing(buffer, path) == buffer

\* What getValue does to the buffer before it sends: responseBuffer.delete(path)
Discard(buffer, path) == BufferDelete(buffer, path)

\* getValue(group, endpoint, index, timeoutMs) up to its first await; tool says
\* that the get_value handler makes the call (after its own isConnected test).
GetValue(s, group, endpoint, index, timeoutMs, tool) ==
    LET path == buildOscPath(group, endpoint, index)
        op == IF tool THEN "get_value" ELSE "getValue"
        call == Call(group, endpoint, index, StringValue(""))
    IN
    /\ reads[s].pc = "idle"
    /\ IF client = NoClient \/ path = NoPath
       THEN /\ ret' = Return(op, call,
                             IF client = NoClient THEN "NotConnected" ELSE "InvalidEndpoint",
                             NoResponse, IdleRead)
            /\ wire' = NoMessage
            /\ UNCHANGED <<responseBuffer, reads, queries, inflight>>
       ELSE /\ queries < MaxQueries
            /\ responseBuffer' = Discard(responseBuffer, path)
            /\ wire' = Query(path)
            /\ queries' = queries + 1
            /\ inflight' = BufferSet(inflight, queries + 1, path)
            /\ reads' = [reads EXCEPT ![s] =
                            [IdleRead EXCEPT !.pc = "sending", !.path = path,
                                             !.timeoutMs = timeoutMs, !.query = queries + 1,
                                             !.chan = client, !.tool = tool,
                                             !.stale = BufferGet(responseBuffer, path)]]
            /\ ret' = NoReturn
    /\ UNCHANGED <<client, listener, config, openClients, openListeners, created,
                   connecting, disconnecting, now>>

\* The get_value handler: its isConnected test, then getValue with the default
\* timeout.
GetValueTool(s, group, endpoint, index) ==
    IF isConnected
    THEN GetValue(s, group, endpoint, index, DefaultTimeoutMs, TRUE)
    ELSE /\ reads[s].pc = "idle"
         /\ ret' = Return("get_value", Call(group, endpoint, index, StringValue("")),
                          "NotConnected", NoResponse, IdleRead)
         /\ wire' = NoMessage
         /\ UNCHANGED <<client, listener, config, responseBuffer, openClients,
                        openListeners, created, connecting, disconnecting, reads,
                        queries, inflight, now>>

\* getValue resumed: client.send settled.  The deadline is taken and the loop's
\* first turn runs.  A query whose send failed gets no reply from the console.
GetValueSent(s, sendOk) ==
    /\ reads[s].pc = "sending"
    /\ IF sendOk
       THEN Poll(s, [reads[s] EXCEPT !.deadline = now + reads[s].timeoutMs])
       ELSE ReadReturns(s, reads[s], "TransportFailure", NoResponse)
    /\ inflight' = IF sendOk THEN inflight ELSE BufferDelete(inflight, reads[s].query)
    /\ wire' = NoMessage
    /\ UNCHANGED <<client, listener, config, responseBuffer, openClients, openListeners,
                   created, connecting, disconnecting, queries, now>>

\* getValue resumed: the 50 ms timer fired (on time or late).
GetValueWake(s) ==
    /\ reads[s].pc = "sleep"
    /\ now >= reads[s].wake
    /\ Poll(s, reads[s])
    /\ wire' = NoMessage
    /\ UNCHANGED <<client, listener, config, responseBuffer, openClients, openListeners,
                   created, connecting, disconnecting, queries, inflight, now>>

(***************************************************************************)
(* The listener and the clock                                              *)
(***************************************************************************)
\* A handler that keeps the entry an address already has
StoreFirst(buffer, address, args, session, reply) ==
    IF address \in DOMAIN buffer
    THEN buffer
    ELSE BufferSet(buffer, address, OscResponse(address, args, now, session, reply, queries))

\* The listener's "message" handler: responseBuffer.set(address, {address, args,
\* timestamp: Date.now()}).  Every open Server runs it, referenced or not.
Store(buffer, address, args, session, reply) ==
    BufferSet(buffer, address, OscResponse(address, args, now, session, reply, queries))

\* Ghost: the getValue calls in progress for the address have had a message.
Heard(address) ==
    [s \in ReadSlots |-> IF reads[s].pc # "idle" /\ reads[s].path = address
                         THEN [reads[s] EXCEPT !.heard = TRUE]
                         ELSE reads[s]]

\* A message the console sent unasked arrives.
Receive(l, address, args) ==
    /\ l \in openListeners
    /\ responseBuffer' = Store(responseBuffer, address, args, l, 0)
    /\ reads' = Heard(address)
    /\ wire' = NoMessage
    /\ ret' = NoReturn
    /\ UNCHANGED <<client, listener, config, openClients, openListeners, created,
                   connecting, disconnecting, queries, inflight, now>>

\* The console's reply to query q arrives.
ReceiveReply(l, q, args) ==
    /\ l \in openListeners
    /\ q \in DOMAIN inflight
    /\ responseBuffer' = Store(responseBuffer, inflight[q], args, l, q)
    /\ inflight' = BufferDelete(inflight, q)
    /\ reads' = Heard(inflight[q])
    /\ wire' = NoMessage
    /\ ret' = NoReturn
    /\ UNCHANGED <<client, listener, config, openClients, openListeners, created,
                   connecting, disconnecting, queries, now>>

\* Time passes.
Tick(ms) ==
    /\ now' = now + ms
    /\ wire' = NoMessage
    /\ ret' = NoReturn
    /\ UNCHANGED <<client, listener, config, responseBuffer, openClients, openListeners,
                   created, connecting, disconnecting, reads, queries, inflight>>


(***************************************************************************)
(* Catalog calls                                                           *)
(***************************************************************************)
\* A catalog function is called and returns; the client is not involved.
Returns(return) ==
    /\ ret' = return
    /\ wire' = NoMessage
    /\ UNCHANGED <<client, listener, config, responseBuffer, openClients, openListeners,
                   created, connecting, disconnecting, reads, queries, inflight, now>>

GetEndpointInfo(group, endpoint) ==
    LET spec == getEndpointInfo(group, endpoint) IN
    Returns(CatalogReturn("getEndpointInfo", Call(group, endpoint, NoIndex, StringValue("")),
                          "", NoOptions, Result(spec.found, spec, NoPath, <<>>)))

BuildOscPath(group, endpoint, index) ==
    LET path == buildOscPath(group, endpoint, index) IN
    Returns(CatalogReturn("buildOscPath", Call(group, endpoint, index, StringValue("")),
                          "", NoOptions, Result(path # NoPath, NotFound, path, <<>>)))

ListEndpoints(group) ==
    LET listed == listEndpoints(group) IN
    Returns(CatalogReturn("listEndpoints", Call(group, "", NoIndex, StringValue("")),
                          "", NoOptions, Result(listed.found, NotFound, NoPath, listed.list)))

\* midasClient.isDangerous(endpoint) called directly.
IsDangerous(endpoint) ==
    Returns(CatalogReturn("isDangerous", Call("", endpoint, NoIndex, StringValue("")),
                          "", NoOptions,
                          Result(isDangerous(endpoint), NotFound, NoPath, <<>>)))

ListGroups ==
    Returns(CatalogReturn("listGroups", NoCall, "", NoOptions,
                          Result(TRUE, NotFound, NoPath, listGroups)))

SearchEndpoints(query, options) ==
    Returns(CatalogReturn("searchEndpoints", NoCall, query, options,
                          Result(TRUE, NotFound, NoPath, searchEndpoints(query, options))))

(***************************************************************************)
(* Inputs                                                                  *)
(***************************************************************************)
ConfigInputs ==
    {[ip |-> "192.168.1.100", port |-> 10023, listenPort |-> 10024],
     [ip |-> "192.168.1.101", port |-> 10023, listenPort |-> 10024]}

GroupInputs == {"enVirtualMicInputs", "enGlobals", "envirtualmicinputs", "constructor"}

EndpointInputs ==
    {"enFader", "enPan", "enMute", "enPathname", "enMeter", "enRebootConsole",
     "enResetGlobalsToDefault", "enrebootconsole", "name"}

IndexInputs == {NoIndex, 0, 2}

\* -5, -2.5, 0, 0.00000005, 0.5, 0.9999999, 0.99999995, 1, 2.5, 3.7 and two strings
ValueInputs ==
    {NumberValue(n) : n \in {-5 * One, -250000000, 0, 5, One \div 2, FaderMax,
                             99999995, One, 250000000, 370000000}}
    \cup {StringValue("Kick"), StringValue("1")}

\* The calls of the specification that also reads: a fader, a meter, a switch given
\* a string, a name that is in no table.
WriteInputs ==
    {Call("enVirtualMicInputs", "enFader", 0, NumberValue(One)),
     Call("enVirtualMicInputs", "enMeter", 0, NumberValue(One)),
     Call("enVirtualMicInputs", "enMute", NoIndex, StringValue("Kick")),
     Call("enVirtualMicInputs", "enNoSuch", NoIndex, NumberValue(0))}

ReadInputs ==
    {Call("enVirtualMicInputs", "enFader", 0, StringValue("")),
     Call("enVirtualMicInputs", "enNoSuch", NoIndex, StringValue(""))}

TimeoutInputs == {0, 100}

\* The address the console sends messages for unasked, and the argument lists it sends.
AddressInputs == {buildOscPath("enVirtualMicInputs", "enFader", 0)}

ArgsInputs == {<<One \div 2>>}

(***************************************************************************)
(* Specifications                                                          *)
(***************************************************************************)
\* The datagram of the last step has left and its caller has the answer: nothing of
\* the last step is pending.
Settled == wire = NoMessage /\ ret = NoReturn

\* The outputs of a step are taken (the datagram by the network, the answer by the
\* caller) before the next step is looked at.
Settle ==
    /\ ~Settled
    /\ wire' = NoMessage
    /\ ret' = NoReturn
    /\ UNCHANGED <<client, listener, config, responseBuffer, openClients, openListeners,
                   created, connecting, disconnecting, reads, queries, inflight, now>>

\* Ticks of TickMs taken so far (the timers' 2000 ms jumps apart).
Ticks == (now % DefaultTimeoutMs) \div TickMs

Sleeping == \E s \in ReadSlots : reads[s].pc = "sleep" /\ now < reads[s].wake

Connects == Settled /\ \E cfg \in ConfigInputs : Connect(cfg)

\* The first connect of the process (the specification of the reads has one session).
FirstConnects == Settled /\ created = 0 /\ \E cfg \in ConfigInputs : Connect(cfg)

ConnectResumes == Settled /\ \E closed \in BOOLEAN : ConnectResume(closed)

Disconnects == Settled /\ \E d \in DisconnectSlots : Disconnect(d)

DisconnectResumes ==
    Settled /\ \E d \in DisconnectSlots, closed \in BOOLEAN : DisconnectResume(d, closed)

OneDisconnects == Settled /\ Disconnect(1)

OneDisconnectResumes == Settled /\ \E closed \in BOOLEAN : DisconnectResume(1, closed)

Receives ==
    /\ Settled
    /\ \E l \in openListeners, address \in AddressInputs, args \in ArgsInputs :
        Receive(l, address, args)

ReceiveReplies ==
    /\ Settled
    /\ \E l \in openListeners, q \in DOMAIN inflight, args \in ArgsInputs :
        ReceiveReply(l, q, args)

GetValues ==
    /\ Settled
    /\ \E s \in Readers, call \in ReadInputs, timeoutMs \in TimeoutInputs :
        GetValue(s, call.group, call.endpoint, call.index, timeoutMs, FALSE)

GetValueTools ==
    /\ Settled
    /\ \E s \in Readers, call \in ReadInputs :
        GetValueTool(s, call.group, call.endpoint, call.index)

GetValueSents == Settled /\ \E s \in ReadSlots, sendOk \in BOOLEAN : GetValueSent(s, sendOk)

GetValueWakes == Settled /\ \E s \in ReadSlots : GetValueWake(s)

SetValues ==
    /\ Settled
    /\ \E call \in WriteInputs, sendOk \in BOOLEAN :
        SetValue(call.group, call.endpoint, call.value, call.index, sendOk)

Ticking == Settled /\ Ticks < MaxTicks /\ Tick(TickMs)

\* A timer that is late: time jumps while a getValue waits for its timer.
TickingLate == Settled /\ Sleeping /\ Tick(DefaultTimeoutMs)

Next ==
    \/ FirstConnects
    \/ OneDisconnects
    \/ OneDisconnectResumes
    \/ Receives
    \/ ReceiveReplies
    \/ GetValues
    \/ GetValueSents
    \/ GetValueWakes
    \/ SetValues
    \/ Ticking
    \/ Settle

Spec == Init /\ [][Next]_vars

\* Writes only, over every input: the set_value tool, setValue called directly,
\* connect and disconnect (one caller of disconnect).
AllSetValues ==
    /\ Settled
    /\ \E group \in GroupInputs, endpoint \in EndpointInputs, value \in ValueInputs,
          index \in IndexInputs, sendOk \in BOOLEAN :
           SetValue(group, endpoint, value, index, sendOk)

AllSetValueTools ==
    /\ Settled
    /\ \E group \in GroupInputs, endpoint \in EndpointInputs, value \in ValueInputs,
          index \in IndexInputs, sendOk \in BOOLEAN :
           SetValueTool(group, endpoint, value, index, sendOk)

NextWrite ==
    \/ Connects
    \/ ConnectResumes
    \/ OneDisconnects
    \/ OneDisconnectResumes
    \/ AllSetValues
    \/ AllSetValueTools
    \/ Settle

SpecWrite == Init /\ [][NextWrite]_vars

\* connect and disconnect called one after the other, as their callers are told to:
\* a call is made when no other is in progress.
Quiet ==
    /\ connecting.pc = "idle"
    /\ \A d \in DisconnectSlots : disconnecting[d].pc = "idle"

SerialConnects == Settled /\ Quiet /\ \E cfg \in ConfigInputs : Connect(cfg)

SerialDisconnects == Settled /\ Quiet /\ Disconnect(1)

NextSerial ==
    \/ SerialConnects
    \/ ConnectResumes
    \/ SerialDisconnects
    \/ OneDisconnectResumes
    \/ Receives
    \/ Ticking
    \/ Settle

SpecSerial == Init /\ [][NextSerial]_vars

\* The reads with the event loop's guarantees: a settled send resumes its caller,
\* a timer fires (late at worst), time passes.
NextLive ==
    \/ FirstConnects
    \/ OneDisconnects
    \/ OneDisconnectResumes
    \/ Receives
    \/ GetValues
    \/ GetValueTools
    \/ GetValueSents
    \/ GetValueWakes
    \/ Ticking
    \/ TickingLate
    \/ Settle

Fairness ==
    /\ SF_vars(GetValueSents)
    /\ SF_vars(GetValueWakes)
    /\ SF_vars(TickingLate)
    /\ WF_vars(Settle)

SpecLive == Init /\ [][NextLive]_vars /\ Fairness


\* Two addresses (one fader, channels 0 and 2) and the messages the console sends
\* for them.
PairInputs ==
    {Call("enVirtualMicInputs", "enFader", 0, StringValue("")),
     Call("enVirtualMicInputs", "enFader", 2, StringValue(""))}

PairAddresses == {buildOscPath(call.group, call.endpoint, call.index) : call \in PairInputs}

PairReceives ==
    /\ Settled
    /\ \E l \in openListeners, address \in PairAddresses, args \in ArgsInputs :
        Receive(l, address, args)

\* The ResponseBuffer with two addresses: one caller reads either, the console
\* replies and sends unasked for both, the client is disconnected; timers fire late.
BufferGetValues ==
    /\ Settled
    /\ \E s \in Readers, call \in PairInputs, timeoutMs \in TimeoutInputs :
        GetValue(s, call.group, call.endpoint, call.index, timeoutMs, FALSE)

NextBuffer ==
    \/ FirstConnects
    \/ OneDisconnects
    \/ OneDisconnectResumes
    \/ PairReceives
    \/ ReceiveReplies
    \/ BufferGetValues
    \/ GetValueSents
    \/ GetValueWakes
    \/ TickingLate
    \/ Settle

SpecBuffer == Init /\ [][NextBuffer]_vars


\* Two getValue calls that overlap, each for its own address: the first caller
\* reads channel 0, the second channel 2, with a timeout that leaves time for a
\* poll turn after a sleep; the console sends messages for both addresses.
SlotCall(s) ==
    Call("enVirtualMicInputs", "enFader", IF s = 1 THEN 0 ELSE 2, StringValue(""))

WaitInputs == {t \in TimeoutInputs : t > PollMs}

PairGetValues ==
    /\ Settled
    /\ \E s \in ReadSlots, timeoutMs \in WaitInputs :
        GetValue(s, SlotCall(s).group, SlotCall(s).endpoint, SlotCall(s).index,
                 timeoutMs, FALSE)

NextPair ==
    \/ FirstConnects
    \/ PairReceives
    \/ PairGetValues
    \/ GetValueSents
    \/ GetValueWakes
    \/ Ticking
    \/ Settle

SpecPair == Init /\ [][NextPair]_vars


\* Two getValue calls that overlap for the same address, with messages for it and a
\* disconnect while they wait.
SameGetValues ==
    /\ Settled
    /\ \E s \in ReadSlots, timeoutMs \in WaitInputs :
        GetValue(s, SlotCall(1).group, SlotCall(1).endpoint, SlotCall(1).index,
                 timeoutMs, FALSE)

NextSame ==
    \/ FirstConnects
    \/ OneDisconnects
    \/ OneDisconnectResumes
    \/ Receives
    \/ SameGetValues
    \/ GetValueSents
    \/ GetValueWakes
    \/ Ticking
    \/ Settle

SpecSame == Init /\ [][NextSame]_vars


\* One getValue call at a time, with disconnects and reconnects while it waits.
NextAbort ==
    \/ Connects
    \/ ConnectResumes
    \/ OneDisconnects
    \/ OneDisconnectResumes
    \/ Receives
    \/ GetValues
    \/ GetValueSents
    \/ GetValueWakes
    \/ Ticking
    \/ Settle

SpecAbort == Init /\ [][NextAbort]_vars


\* connect and disconnect with overlapping calls: connects are serialized among
\* themselves; a disconnect may begin while a connect or another disconnect awaits
\* its close.  The console sends messages meanwhile.
NextOverlap ==
    \/ Connects
    \/ ConnectResumes
    \/ Disconnects
    \/ DisconnectResumes
    \/ Receives
    \/ Settle

SpecOverlap == Init /\ [][NextOverlap]_vars

\* The three client methods that leave the session alone, beside what changes it:
\* the console sends for two addresses, one caller reads either (or a name that is
\* no endpoint), values are written, names are tested, the client is disconnected.
FrameGetValues ==
    /\ Settled
    /\ \E s \in Readers, call \in PairInputs \cup ReadInputs, timeoutMs \in TimeoutInputs :
        GetValue(s, call.group, call.endpoint, call.index, timeoutMs, FALSE)

AreDangerous == Settled /\ \E endpoint \in {"enFader", "enRebootConsole"} : IsDangerous(endpoint)

NextFrame ==
    \/ FirstConnects
    \/ OneDisconnects
    \/ OneDisconnectResumes
    \/ PairReceives
    \/ FrameGetValues
    \/ GetValueSents
    \/ GetValueWakes
    \/ SetValues
    \/ AreDangerous
    \/ TickingLate
    \/ Settle

SpecFrame == Init /\ [][NextFrame]_vars

\* The tool surface on the deny-listed endpoints: get_value and set_value name them
\* (and one fader), the client connects and disconnects, timers fire late.
GateInputs ==
    {Call("enGlobals", "enRebootConsole", NoIndex, StringValue("")),
     Call("enGlobals", "enResetGlobalsToDefault", NoIndex, StringValue("")),
     Call("enVirtualMicInputs", "enFader", 0, StringValue(""))}

GateGetValueTools ==
    /\ Settled
    /\ \E s \in Readers, call \in GateInputs :
        GetValueTool(s, call.group, call.endpoint, call.index)

GateSetValueTools ==
    /\ Settled
    /\ \E call \in GateInputs, value \in {NumberValue(One), StringValue("x")},
          sendOk \in BOOLEAN :
           SetValueTool(call.group, call.endpoint, value, call.index, sendOk)

NextGate ==
    \/ FirstConnects
    \/ OneDisconnects
    \/ OneDisconnectResumes
    \/ GateGetValueTools
    \/ GetValueSents
    \/ GetValueWakes
    \/ GateSetValueTools
    \/ TickingLate
    \/ Settle

SpecGate == Init /\ [][NextGate]_vars

\* The catalog functions over names that are keys, names that differ from a key in
\* case, names in no table, and names every object inherits.
QueryInputs ==
    {"", " ", "fader", "FADER", "channel fader", "fader  channel", " mute ",
     "englobalsen", "enppcswitchmessage reboot", "nomatch"}

OptionInputs ==
    {[group |-> g, type |-> t] :
        g \in {"", "enGlobals", "enVirtualMicInputs", "englobals"},
        t \in {"", "enPPCFaderMessage", "enPPCSwitchMessage"}}

GetEndpointInfos ==
    Settled /\ \E group \in GroupInputs, endpoint \in EndpointInputs :
        GetEndpointInfo(group, endpoint)

BuildOscPaths ==
    Settled /\ \E group \in GroupInputs, endpoint \in EndpointInputs, index \in IndexInputs :
        BuildOscPath(group, endpoint, index)

ListsEndpoints == Settled /\ \E group \in GroupInputs : ListEndpoints(group)

ListsGroups == Settled /\ ListGroups

SearchesEndpoints ==
    Settled /\ \E query \in QueryInputs, options \in OptionInputs :
        SearchEndpoints(query, options)

NextCatalog ==
    \/ GetEndpointInfos
    \/ BuildOscPaths
    \/ ListsEndpoints
    \/ ListsGroups
    \/ SearchesEndpoints
    \/ Settle

SpecCatalog == Init /\ [][NextCatalog]_vars


(***************************************************************************)
(* Claims                                                                  *)
(***************************************************************************)
DenyList == {"enRebootConsole", "enResetGlobalsToDefault"}

Writes == {"setValue", "set_value"}

\* The catalog entry of the endpoint the returned call named
Named == getEndpointInfo(ret.call.group, ret.call.endpoint)

\* C1 as stated: in any connection state a set_value for a deny-listed endpoint sends
\* nothing and ends in the blocked outcome, and no other endpoint is blocked.
C1_BlockedInEveryState ==
    ret.op = "set_value" =>
        IF ret.call.endpoint \in DenyList
        THEN wire = NoMessage /\ ret.outcome = "Blocked"
        ELSE ret.outcome # "Blocked"

\* C1 amended: a set_value for a deny-listed endpoint sends nothing in any connection
\* state; it ends in the blocked outcome when the client is connected and in the
\* not-connected outcome when it is not; no other endpoint is blocked.
C1_GateSendsNothing ==
    ret.op = "set_value" =>
        IF ret.call.endpoint \in DenyList
        THEN /\ wire = NoMessage
             /\ ret.outcome = IF client = NoClient THEN "NotConnected" ELSE "Blocked"
        ELSE ret.outcome # "Blocked"

C1_Witness ==
    /\ ret.op = "set_value"
    /\ ret.call.endpoint = "enResetGlobalsToDefault"
    /\ ret.call.group = "enGlobals"
    /\ client # NoClient
    /\ ret.outcome = "Blocked"

\* C8: nothing is sent for an endpoint whose argumentType is none: a setValue (direct
\* or through set_value) on it sends no message whatever the value and index, failing
\* with the read-only error on a connected client; and no message with an argument
\* ever carries the address of such an endpoint.
C8_ReadOnlyNeverSent ==
    /\ (ret.op \in Writes /\ Named.found /\ Named.argumentType = "null") =>
          /\ wire = NoMessage
          /\ client # NoClient => ret.outcome = "ReadOnly"
    /\ \A group \in GroupInputs, endpoint \in EndpointInputs, index \in IndexInputs :
          (getEndpointInfo(group, endpoint).argumentType = "null" /\ wire.args # <<>>)
              => wire.address # buildOscPath(group, endpoint, index)

C8_Witness ==
    /\ ret.op = "setValue"
    /\ ret.call.endpoint = "enMeter"
    /\ ret.call.index = 2
    /\ ret.outcome = "ReadOnly"

\* The number v clamped to [lo, hi]
Clamped(v, lo, hi) == IF v < lo THEN lo ELSE IF v > hi THEN hi ELSE v

\* C9: for a float endpoint and a numeric input v, setValue on a connected client
\* sends one float argument: v clamped to [0.0000001, 0.9999999] for a fader message
\* (strictly between 0 and 1), v clamped to [0, 1] for any other message type.
C9_FloatClamped ==
    (ret.op \in Writes /\ client # NoClient /\ ret.outcome \notin {"Blocked"}
        /\ Named.argumentType = "float" /\ ret.call.value.kind = "number") =>
        LET v == ret.call.value.num IN
        /\ Len(wire.args) = 1
        /\ wire.args[1].type = "f"
        /\ IF Named.type = "enPPCFaderMessage"
           THEN /\ wire.args[1].num = Clamped(v, 10, 99999990)
                /\ 0 < wire.args[1].num
                /\ wire.args[1].num < 100000000
           ELSE wire.args[1].num = Clamped(v, 0, 100000000)

C9_Witness ==
    /\ ret.op = "setValue"
    /\ ret.call.endpoint = "enFader"
    /\ ret.call.value = NumberValue(100000000)
    /\ wire.args = <<Arg("f", NumberValue(99999990))>>

\* C10: for an integer endpoint and a numeric input v, setValue on a connected client
\* sends one integer argument, the integer nearest to v, the upper one on a tie, with
\* no clamping (3.7 is sent as 4, -5 as -5).
C10_IntegerRounded ==
    (ret.op \in Writes /\ client # NoClient /\ ret.outcome \notin {"Blocked"}
        /\ Named.argumentType = "integer" /\ ret.call.value.kind = "number") =>
        LET v == ret.call.value.num IN
        /\ Len(wire.args) = 1
        /\ wire.args[1].type = "i"
        /\ wire.args[1].num % 100000000 = 0
        /\ 2 * (wire.args[1].num - v) <= 100000000
        /\ 2 * (v - wire.args[1].num) < 100000000

C10_Witness ==
    /\ ret.op = "setValue"
    /\ ret.call.endpoint = "enMute"
    /\ ret.call.value = NumberValue(370000000)
    /\ wire.args = <<Arg("i", NumberValue(400000000))>>

Reads == {"getValue", "get_value"}

\* A getValue call that got past its checks has returned.
ReadReturned == ret.op \in Reads /\ ret.read.query # 0

\* C2: with connect and disconnect called one at a time, a connect that succeeds,
\* over a session that was still open in particular, leaves exactly one session:
\* the channel and the listener of the session it replaced are closed, one channel
\* and one listener are open and they are the client's, the stored config is the
\* one this connect was given, and no entry of the buffer was received by an
\* earlier session.
C2_OneSessionAfterReconnect ==
    (ret.op = "connect" /\ ret.outcome = "ok") =>
        /\ client # NoClient
        /\ openClients = {client}
        /\ openListeners = {listener}
        /\ ret.closed \notin openClients \cup openListeners
        /\ config = ret.cfg
        /\ \A a \in DOMAIN responseBuffer : responseBuffer[a].session = listener

\* The second connect returned: it closed the first session, whose config was
\* the other one.
C2_Witness ==
    /\ ret.op = "connect"
    /\ ret.outcome = "ok"
    /\ ret.closed # NoClient
    /\ created = 2
    /\ config = ret.cfg

\* C3: a response that getValue returns was stored by the listener after the call
\* began (after the call's own discard): it is for the call's address and is not
\* the entry that was in the buffer when the call began.
C3_NothingStaleReturned ==
    (ReadReturned /\ ret.outcome = "Response") =>
        /\ ret.response.address = ret.read.path
        /\ ret.response.epoch >= ret.read.query
        /\ ret.response # ret.read.stale

\* A call that found an entry for its address when it began returned a response.
C3_Witness ==
    /\ ReadReturned
    /\ ret.outcome = "Response"
    /\ ret.read.stale # NoResponse

\* C4 (as claimed): a response that getValue returns is never the console's reply
\* to an earlier query.
C4_NoLeftoverReply ==
    (ReadReturned /\ ret.outcome = "Response") =>
        ~(ret.response.reply >= 1 /\ ret.response.reply < ret.read.query)

\* C5 (as claimed): getValue on a client that stays connected does not return "no
\* response" when a message for its address was received after the query was sent
\* and before the deadline.
C5_ArrivalInWindowReturned ==
    (ReadReturned /\ ret.outcome = "NoResponse" /\ client = ret.read.chan) =>
        ~(/\ ret.read.path \in DOMAIN responseBuffer
          /\ responseBuffer[ret.read.path].epoch >= ret.read.query
          /\ responseBuffer[ret.read.path].timestamp >= ret.read.deadline - ret.read.timeoutMs
          /\ responseBuffer[ret.read.path].timestamp < ret.read.deadline)

\* C6 (as claimed): a getValue call that got past its checks and for whose address
\* no message was received does not fail: it returns "no response".
C6_NoMessageNoFailure ==
    (ReadReturned /\ ~ret.read.heard) => ret.outcome = "NoResponse"

\* C6: every getValue call that got past its checks completes, and when the send of
\* its query did not fail and no message for its address was received since it
\* began, it completes with "no response", which is not an error result (of the
\* get_value tool either).
C6_CompletesWithNoResponse ==
    /\ [](  (ReadReturned /\ ~ret.read.heard /\ ret.outcome # "TransportFailure")
              => (ret.outcome = "NoResponse" /\ ~isError(ret)))
    /\ \A s \in ReadSlots : (reads[s].pc # "idle") ~> (reads[s].pc = "idle")

\* The get_value tool waited its 2000 ms, heard nothing, answered "no response".
C6_Witness ==
    /\ ret.op = "get_value"
    /\ ret.outcome = "NoResponse"
    /\ ~ret.read.heard
    /\ ret.read.timeoutMs = DefaultTimeoutMs
    /\ now >= ret.read.deadline

\* The call that returns in this step is a caller error: a getValue that ended at
\* its checks, a setValue on no client, for a name in no table, for a read-only
\* endpoint, or with a string for a float or integer endpoint.
CallerError ==
    LET spec == getEndpointInfo(ret'.call.group, ret'.call.endpoint) IN
    \/ ret'.op = "getValue" /\ ret'.read.query = 0
    \/ /\ ret'.op = "setValue"
       /\ \/ client = NoClient
          \/ ~spec.found
          \/ spec.argumentType = "null"
          \/ spec.argumentType \in {"float", "integer"} /\ ret'.call.value.kind # "number"

\* C7: a getValue or setValue call that is a caller error fails with NotConnected,
\* InvalidEndpoint, ReadOnly or TypeMismatch, hands no message to the channel and
\* leaves client, listener, config, the open sockets and the ResponseBuffer as they
\* were.
C7_CallerErrorsTouchNothing ==
    [][CallerError =>
        /\ ret'.outcome \in {"NotConnected", "InvalidEndpoint", "ReadOnly", "TypeMismatch"}
        /\ wire' = NoMessage
        /\ UNCHANGED <<client, listener, config, responseBuffer, openClients,
                       openListeners, reads, queries>>]_vars

\* A string for an integer endpoint was refused on a connected client that had a
\* response in its buffer.
C7_Witness ==
    /\ ret.op = "setValue"
    /\ ret.outcome = "TypeMismatch"
    /\ wire = NoMessage
    /\ client # NoClient
    /\ responseBuffer # EmptyBuffer

\* The OSC type tag of an argumentType
WireType(argumentType) ==
    CASE argumentType = "float" -> "f"
      [] argumentType = "integer" -> "i"
      [] argumentType = "string" -> "s"
      [] OTHER -> ""

\* C11 (as claimed): a setValue call that completes successfully has sent one
\* message, addressed to buildOscPath(group, endpoint, index), with exactly one
\* argument, whose type tag is that of the endpoint's argumentType.
C11_OneTypedArgument ==
    (ret.op = "setValue" /\ ret.outcome = "ok") =>
        /\ wire.address = buildOscPath(ret.call.group, ret.call.endpoint, ret.call.index)
        /\ Len(wire.args) = 1
        /\ wire.args[1].type = WireType(Named.argumentType)

\* C12: a getValue call that passes its checks hands one message to the channel, the
\* bare address it built with no argument, in the step that starts it; no later step
\* of the call (the resumption after the send, a poll turn, the final return) hands
\* anything to the channel, whatever the timeout and the number of poll turns.
C12_OneBareQuery ==
    [][\A s \in ReadSlots :
        /\ (reads[s].pc = "idle" /\ reads'[s].pc # "idle") =>
              /\ reads'[s].path # NoPath
              /\ wire' = Message(reads'[s].path, <<>>)
        /\ (reads[s].pc # "idle" /\ reads'[s] # reads[s]) => wire' = NoMessage]_vars

\* A read with a timeout of 100 ms slept twice, timed out and returned "no
\* response"; nothing was sent in that step.
C12_Witness ==
    /\ ReadReturned
    /\ ret.outcome = "NoResponse"
    /\ ret.read.timeoutMs = 100
    /\ ret.read.wake >= ret.read.deadline
    /\ now >= ret.read.deadline
    /\ wire = NoMessage

\* C13: with connect and disconnect called one at a time, a disconnect that returns
\* leaves no channel and no listener (every socket closed), no config and an empty
\* ResponseBuffer; a disconnect on a client that has no channel returns without an
\* error in the same step and changes nothing, so a second disconnect leaves what
\* the first one left.
C13_DisconnectIdempotent ==
    /\ []((ret.op = "disconnect" /\ ret.outcome = "ok") =>
            /\ client = NoClient
            /\ listener = NoClient
            /\ config = NoConfig
            /\ responseBuffer = EmptyBuffer
            /\ openClients = {}
            /\ openListeners = {})
    /\ [][(ret'.op = "disconnect" /\ client = NoClient) =>
            /\ ret'.outcome = "ok"
            /\ ret'.closed = NoClient
            /\ wire' = NoMessage
            /\ UNCHANGED <<client, listener, config, responseBuffer, openClients,
                           openListeners, disconnecting>>]_vars

\* The second of two disconnects returned: a session had been opened and closed, and
\* this call closed nothing.
C13_Witness ==
    /\ ret.op = "disconnect"
    /\ ret.outcome = "ok"
    /\ ret.closed = NoClient
    /\ created >= 1
    /\ openClients = {}

\* The addresses whose entry (or absence of one) differs between the two states of
\* the step.
Rewritten ==
    {a \in DOMAIN responseBuffer \cup DOMAIN responseBuffer' :
        BufferGet(responseBuffer, a) # BufferGet(responseBuffer', a)}

\* A disconnect returns in this step and the buffer is empty after it.
Emptied == (responseBuffer' = EmptyBuffer) /\ (ret'.op = "disconnect")

\* C14: the ResponseBuffer has one entry per address, filed under its own address.
\* A step rewrites the entry of at most one address, unless it empties the buffer
\* (a disconnect that returns); an entry that appears or changes is the message
\* received in that step (its timestamp is now); an entry disappears only when a
\* getValue for its address begins or the buffer is emptied; and when the reply to
\* a query arrives, the entry of the query's address is that reply, whatever was
\* there before.
C14_LatestPerAddress ==
    /\ [](\A a \in DOMAIN responseBuffer :
            responseBuffer[a].address = a /\ responseBuffer[a].timestamp <= now)
    /\ [][/\ Cardinality(Rewritten) <= 1 \/ Emptied
          /\ \A a \in Rewritten :
              IF a \in DOMAIN responseBuffer'
              THEN /\ responseBuffer'[a].address = a
                   /\ responseBuffer'[a].timestamp = now'
                   /\ responseBuffer'[a].epoch = queries'
              ELSE \/ \E s \in ReadSlots : reads[s].pc = "idle" /\ reads'[s].path = a
                   \/ Emptied
          /\ \A q \in DOMAIN inflight \ DOMAIN inflight' :
              ret' = NoReturn =>
                 /\ inflight[q] \in DOMAIN responseBuffer'
                 /\ responseBuffer'[inflight[q]].reply = q
                 /\ responseBuffer'[inflight[q]].timestamp = now']_vars

\* Both addresses have an entry: one is the reply to the second query, stored
\* after a first query; the other was sent unasked, after a query.
C14_Witness ==
    /\ DOMAIN responseBuffer = PairAddresses
    /\ \E a \in PairAddresses : responseBuffer[a].reply = 2
    /\ \E a \in PairAddresses : responseBuffer[a].reply = 0 /\ responseBuffer[a].epoch >= 1

\* The step is a turn of the getValue call in slot s after its start: the resumption
\* after the send or after the timer (the listener's mark on the call set aside).
Turn(s) ==
    /\ reads[s].pc # "idle"
    /\ [reads'[s] EXCEPT !.heard = reads[s].heard] # reads[s]

\* What the turn of the call in slot s does, told from the call's own record, the
\* clock and the entry of the call's own address alone: a fresh entry before the
\* deadline is returned, the deadline reached gives "no response", else the call
\* sleeps.
TurnFromOwnEntry(s) ==
    LET read == reads[s]
        own == BufferGet(responseBuffer, read.path)
        deadline == IF read.pc = "sending" THEN now + read.timeoutMs ELSE read.deadline
    IN IF now >= deadline
       THEN ret'.outcome = "NoResponse" /\ ret'.response = NoResponse
       ELSE IF own # NoResponse /\ own.timestamp > now - read.timeoutMs
            THEN ret'.outcome = "Response" /\ ret'.response = own
            ELSE ret' = NoReturn /\ reads'[s].pc = "sleep"

\* C15: of two getValue calls for different addresses, each discards only the entry
\* of its own address when it begins, changes nothing in the buffer afterwards,
\* returns only an entry of its own address received since it began, and at each of
\* its turns does what the entry of its own address, its own record and the clock
\* determine, whatever the other call does and whatever is received for the other
\* address.
C15_DifferentAddressesIndependent ==
    /\ []((ReadReturned /\ ret.outcome = "Response") =>
            /\ ret.response.address = ret.read.path
            /\ ret.response.epoch >= ret.read.query
            /\ ret.read.heard)
    /\ [][\A s \in ReadSlots :
            /\ (reads[s].pc = "idle" /\ reads'[s].pc # "idle") =>
                  responseBuffer' = BufferDelete(responseBuffer, reads'[s].path)
            /\ Turn(s) =>
                  /\ responseBuffer' = responseBuffer
                  /\ ret'.outcome # "TransportFailure" => TurnFromOwnEntry(s)]_vars

\* One call returned the response for its address while the call for the other
\* address was still in progress and the other address had its entry.
C15_Witness ==
    /\ ReadReturned
    /\ ret.outcome = "Response"
    /\ \E t \in ReadSlots :
        /\ reads[t].pc # "idle"
        /\ reads[t].path # ret.read.path
        /\ reads[t].path \in DOMAIN responseBuffer

\* C16 (as claimed, in what it needs): of two overlapping getValue calls for one
\* address at least one returns the response received while one of them waited, so
\* that response is not removed from the buffer, unreturned, by the start of the
\* other call.
C16_ResponseNotLost ==
    [][\A s, t \in ReadSlots :
         (/\ reads[s].pc \in {"sending", "sleep"}
          /\ reads[s].heard
          /\ reads[s].path \in DOMAIN responseBuffer
          /\ reads[t].pc = "idle"
          /\ reads'[t].pc # "idle"
          /\ reads'[t].path = reads[s].path)
         => reads[s].path \in DOMAIN responseBuffer']_vars

\* C16: with two overlapping getValue calls for one address, a call that finds a
\* fresh response at one of its turns before its deadline returns it and leaves it
\* in the buffer (where the other call can find the same response); a response a
\* call returns is the one the buffer holds for the address, received since that
\* call began.
C16_ObservedResponseReturned ==
    /\ []((ReadReturned /\ ret.outcome = "Response") =>
            /\ ret.response = BufferGet(responseBuffer, ret.read.path)
            /\ ret.response.epoch >= ret.read.query)
    /\ [][\A s \in ReadSlots :
            (Turn(s) /\ ret'.outcome # "TransportFailure") =>
                /\ TurnFromOwnEntry(s)
                /\ responseBuffer' = responseBuffer]_vars

\* One call returned the response while the other call for the same address, which
\* was waiting when the message came, is still asleep.
C16_Witness ==
    /\ ReadReturned
    /\ ret.outcome = "Response"
    /\ \E t \in ReadSlots :
        /\ reads[t].pc = "sleep"
        /\ reads[t].path = ret.read.path
        /\ reads[t].heard

\* C17: a getValue call that got past its send ends in one of two ways only, with
\* the client connected, disconnected or reconnected meanwhile: it returns a fresh
\* response for its address, found before its deadline, or it returns "no response"
\* once its deadline has passed.  A turn of a call that sleeps never throws, and a
\* disconnect or a connect that returns leaves the calls in progress as they were.
C17_WaitNotAborted ==
    /\ []((ReadReturned /\ ret.outcome # "TransportFailure") =>
            \/ /\ ret.outcome = "Response"
               /\ ret.response.address = ret.read.path
               /\ now < ret.read.deadline
            \/ /\ ret.outcome = "NoResponse"
               /\ now >= ret.read.deadline)
    /\ [][/\ \A s \in ReadSlots :
               (reads[s].pc = "sleep" /\ Turn(s)) => TurnFromOwnEntry(s)
          /\ ret'.op \in {"connect", "disconnect"} =>
               \A s \in ReadSlots : reads'[s] = reads[s]]_vars

\* The call was sent on a channel that is no longer the client's (the client was
\* disconnected, or reconnected, during the wait); it slept to its deadline and
\* returned "no response".
C17_Witness ==
    /\ ReadReturned
    /\ ret.outcome = "NoResponse"
    /\ ret.read.chan # client
    /\ ret.read.timeoutMs > PollMs
    /\ ret.read.wake >= ret.read.deadline
    /\ now >= ret.read.deadline

\* The catalog's own entries, read off the merged table without a lookup.
Catalog == {ObjectEntries(getAllEndpoints, 1)[k] : k \in 1..Len(ObjectEntries(getAllEndpoints, 1))}

InCatalog(group, endpoint) ==
    \E entry \in Catalog : entry.group = group /\ entry.endpoint = endpoint

CatalogSpec(group, endpoint) ==
    (CHOOSE entry \in Catalog : entry.group = group /\ entry.endpoint = endpoint).spec

\* C18: buildOscPath returns not-found exactly when the (group, endpoint) pair is absent
\* from the catalog; otherwise it returns "/{type}/{group}/{endpoint}", followed by
\* "/{index}" exactly when the endpoint is multiPath and an index was supplied.
C18_PathExactlyForCatalogPairs ==
    ret.op = "buildOscPath" =>
        LET group == ret.call.group
            endpoint == ret.call.endpoint
            index == ret.call.index
        IN IF ~InCatalog(group, endpoint) THEN ret.result.path = NoPath
           ELSE LET spec == CatalogSpec(group, endpoint)
                    base == "/" \o spec.type \o "/" \o group \o "/" \o endpoint
                IN /\ ret.result.path # NoPath
                   /\ (spec.multiPath /\ index # NoIndex)
                        => ret.result.path = base \o "/" \o ToString(index)
                   /\ ~(spec.multiPath /\ index # NoIndex) => ret.result.path = base

\* The names of the catalog's groups
CatalogGroups == {entry.group : entry \in Catalog}

\* C20: listEndpoints returns not-found exactly when no catalog group has that exact
\* name, and getEndpointInfo returns not-found exactly when the exact pair is not in
\* the catalog: for a string that is not a key of the tables the result is not-found,
\* never an empty list and never a value that is no EndpointSpec.
C20_NotFoundExactlyForNonKeys ==
    /\ ret.op = "listEndpoints" =>
          /\ ret.result.found <=> ret.call.group \in CatalogGroups
          /\ ret.result.found => ret.result.list # <<>>
    /\ ret.op = "getEndpointInfo" =>
          /\ ret.result.found <=> InCatalog(ret.call.group, ret.call.endpoint)
          /\ ret.result.found => ret.result.spec = CatalogSpec(ret.call.group, ret.call.endpoint)

\* The whitespace-separated terms of a query: its maximal runs of other characters.
Terms(query) ==
    {SubSeq(query, i, j) : <<i, j>> \in
        {w \in (1..Len(query)) \X (1..Len(query)) :
            /\ w[1] <= w[2]
            /\ \A k \in w[1]..w[2] : CharAt(query, k) \notin Whitespace
            /\ w[1] = 1 \/ CharAt(query, w[1] - 1) \in Whitespace
            /\ w[2] = Len(query) \/ CharAt(query, w[2] + 1) \in Whitespace}}

\* The searchable string of a catalog entry, its four fields put together with a
\* separator between them.
Searchable(entry, separator) ==
    ToLowerCase(entry.group \o separator \o entry.endpoint \o separator
                \o entry.spec.description \o separator \o entry.spec.type)

\* The entries a search is to return, in catalog iteration order.
Matching(query, options, separator) ==
    LET Passes(entry) ==
            /\ options.group # "" => entry.group = options.group
            /\ options.type # "" => entry.spec.type = options.type
            /\ \A term \in Terms(ToLowerCase(query)) :
                  Includes(Searchable(entry, separator), term)
    IN SelectSeq(ObjectEntries(getAllEndpoints, 1), Passes)

Triples(list) ==
    [k \in 1..Len(list) |->
        [group |-> list[k].group, endpoint |-> list[k].endpoint, spec |-> list[k].spec]]

\* C19 as stated: searchEndpoints returns, in catalog iteration order, exactly the
\* triples that pass the group and type filters and for which every whitespace-
\* separated lowercase term of the query is a substring of the lowercased
\* concatenation group + endpoint + description + type.
C19_MatchesOverConcatenation ==
    ret.op = "searchEndpoints" =>
        Triples(ret.result.list) = Matching(ret.query, ret.options, "")

\* C19: searchEndpoints returns, in catalog iteration order, exactly the triples that
\* pass the group and type filters and for which every whitespace-separated lowercase
\* term of the query is a substring of the lowercased fields group, endpoint,
\* description and type joined by single spaces; an empty or whitespace-only query
\* matches every endpoint that passes the filters.
C19_MatchesOverJoinedFields ==
    ret.op = "searchEndpoints" =>
        /\ Triples(ret.result.list) = Matching(ret.query, ret.options, " ")
        /\ Terms(ret.query) = {} =>
              Triples(ret.result.list) = Matching("", ret.options, " ")
        /\ \A k \in 1..Len(ret.result.list) :
              ret.result.list[k].oscPath =
                  buildOscPath(ret.result.list[k].group, ret.result.list[k].endpoint, NoIndex)

\* A query of two terms with two spaces between them, under a type filter, returned
\* the one fader whose fields hold both terms.
C19_Witness ==
    /\ ret.op = "searchEndpoints"
    /\ ret.query = "fader  channel"
    /\ ret.options = [group |-> "", type |-> "enPPCFaderMessage"]
    /\ Len(ret.result.list) = 1
    /\ ret.result.list[1].group = "enVirtualMicInputs"
    /\ ret.result.list[1].endpoint = "enFader"

\* The names of a table's groups in the table's order
GroupNames(table) == [i \in 1..Len(table) |-> table[i].group]

\* C21: the merged catalog holds each distinct group name once; listGroups returns one
\* GroupInfo per group, the main table's groups first in their order, then the groups
\* that are only in the FX table; a group in both tables has exactly the FX table's
\* endpoints and none of the main table's.
C21_MergedOnceFxWins ==
    ret.op = "listGroups" =>
        LET groups == ret.result.list
            fxOnly == SelectSeq(GroupNames(FxTable),
                                LAMBDA name : name \notin Keys(MainTable))
        IN /\ \A name \in Keys(MainTable) \cup Keys(FxTable) :
                Cardinality({i \in 1..Len(getAllEndpoints) :
                                getAllEndpoints[i].group = name}) = 1
           /\ GroupNames(getAllEndpoints) = GroupNames(MainTable) \o fxOnly
           /\ [i \in 1..Len(groups) |-> groups[i].name] = GroupNames(MainTable) \o fxOnly
           /\ \A i \in 1..Len(groups) :
                LET name == groups[i].name
                    table == IF name \in Keys(FxTable) THEN FxTable ELSE MainTable
                    endpoints == Entry(table, name).endpoints
                IN /\ groups[i].endpointCount = Len(endpoints)
                   /\ listEndpoints(name).list = endpoints
                   /\ \A endpoint \in EndpointKeys(Entry(getAllEndpoints, name).endpoints) :
                        endpoint \in EndpointKeys(endpoints)
                   /\ \A type \in DOMAIN groups[i].messageTypes :
                        groups[i].messageTypes[type] =
                            Cardinality({j \in 1..Len(endpoints) :
                                            endpoints[j].spec.type = type})

\* listGroups returned the group that is in both tables third, with the FX table's
\* one endpoint, and the group that is only in the FX table last.
C21_Witness ==
    /\ ret.op = "listGroups"
    /\ Len(ret.result.list) = 4
    /\ ret.result.list[3].name = "enVirtualInternalFX"
    /\ ret.result.list[3].endpointCount = 1
    /\ "enVirtualInternalFX" \in Keys(MainTable) \cap Keys(FxTable)
    /\ getEndpointInfo("enVirtualInternalFX", "enDelayTime").found
    /\ ~getEndpointInfo("enVirtualInternalFX", "enOldParam").found
    /\ ret.result.list[4].name = "enVirtualFXReturns"

\* The addresses that name a deny-listed endpoint
DeniedAddresses ==
    {buildOscPath(group, endpoint, index) :
        group \in Keys(getAllEndpoints), endpoint \in DenyList, index \in IndexInputs}
    \ {NoPath}

\* C22: no message of any kind whose address names a deny-listed endpoint is sent to
\* the console through the tools: neither a write of set_value nor the query without
\* arguments of get_value.
C22_NoDeniedAddressOnTheWire ==
    wire # NoMessage => wire.address \notin DeniedAddresses

\* C23: the set_value tool decides its outcome in a fixed order: not connected, for
\* every input; else blocked, for a deny-listed name, whether or not the pair is in the
\* catalog; else not found, for a pair that is not in the catalog; else read-only, for
\* an endpoint without an argument; else type mismatch, for a value that is no number
\* on a float or integer endpoint; a blocked call is never reported as an invalid
\* endpoint or as a type mismatch.
C23_OutcomeInFixedOrder ==
    ret.op = "set_value" =>
        LET group == ret.call.group
            endpoint == ret.call.endpoint
        IN /\ ret.outcome =
                IF client = NoClient THEN "NotConnected"
                ELSE IF endpoint \in DenyList THEN "Blocked"
                ELSE IF ~InCatalog(group, endpoint) THEN "NotFound"
                ELSE IF CatalogSpec(group, endpoint).argumentType = "null" THEN "ReadOnly"
                ELSE IF /\ CatalogSpec(group, endpoint).argumentType \in {"float", "integer"}
                        /\ ret.call.value.kind # "number"
                     THEN "TypeMismatch"
                     ELSE ret.outcome
           /\ (client # NoClient /\ endpoint \in DenyList) =>
                ret.outcome \notin {"InvalidEndpoint", "NotFound", "TypeMismatch"}

\* The client's session state and the sockets that are open
Session == <<client, listener, config, responseBuffer, openClients, openListeners, created>>

\* In this step a connect or a disconnect resumes from its await of client.close()
\* and returns, and the channel it was closing is still open after the step.
CloseDidNotClose ==
    \/ /\ connecting.pc = "closing"
       /\ connecting'.pc = "idle"
       /\ connecting.chan \in openClients'
    \/ \E d \in DisconnectSlots :
          /\ disconnecting[d].pc = "closing"
          /\ disconnecting'[d].pc = "idle"
          /\ disconnecting[d].chan \in openClients'

\* In this step a connect or a disconnect returns the failure of its close.
CloseFailureReturned ==
    /\ ret'.op \in {"connect", "disconnect"}
    /\ ret'.outcome = "TransportFailure"

C25_NothingLeftOpen ==
    Quiet =>
        /\ Cardinality(openClients) <= 1
        /\ Cardinality(openListeners) <= 1
        /\ openClients \subseteq {client}
        /\ openListeners \subseteq {listener}
        /\ client = NoClient => (openClients = {} /\ openListeners = {})

\* C26: wherever control can return to a caller (every await and every completed call;
\* connect calls serialized) the three session fields agree: the outbound channel is
\* present exactly when the config is and exactly when the listener is, so isConnected
\* holds exactly when connectionInfo is not null; and when they are absent and no
\* disconnect is in progress the ResponseBuffer is empty.
C26_SessionFieldsAgree ==
    /\ client # NoClient <=> config # NoConfig
    /\ config # NoConfig <=> listener # NoClient
    /\ isConnected <=> connectionInfo # NoConfig
    /\ client # NoClient => client \in openClients /\ listener \in openListeners
    /\ (client = NoClient /\ \A d \in DisconnectSlots : disconnecting[d].pc = "idle")
          => responseBuffer = EmptyBuffer

\* A disconnect still awaits its close while another, which closed the channel, has
\* completed: channel, listener and config are all absent.
C26_Witness ==
    /\ \E d \in DisconnectSlots : disconnecting[d].pc = "closing"
    /\ ret.op = "disconnect"
    /\ ret.outcome = "ok"
    /\ ret.closed # NoClient
    /\ client = NoClient
    /\ config = NoConfig
    /\ listener = NoClient

\* In this step a getValue begins, resumes or returns.
ReadStep ==
    \/ ret'.op \in Reads
    \/ \E s \in ReadSlots : reads'[s].pc # reads[s].pc \/ reads'[s].wake # reads[s].wake

\* In this step a setValue or an isDangerous returns.
WriteStep == ret'.op \in {"setValue", "isDangerous"}

\* C27: getValue, setValue and isDangerous never change the connection state (outbound
\* channel, listener, config), whether they succeed or fail; setValue and isDangerous
\* never modify the ResponseBuffer; getValue modifies only the entry of its own
\* address, removing it once, when it begins.
C27_SessionAndBufferFramed ==
    [][(ReadStep \/ WriteStep) =>
          /\ UNCHANGED <<client, listener, config, openClients, openListeners, created>>
          /\ WriteStep => UNCHANGED responseBuffer
          /\ ReadStep =>
               IF \E s \in ReadSlots : reads[s].pc = "idle" /\ reads'[s].pc = "sending"
               THEN \E s \in ReadSlots :
                       /\ reads[s].pc = "idle"
                       /\ reads'[s].pc = "sending"
                       /\ DOMAIN responseBuffer' = DOMAIN responseBuffer \ {reads'[s].path}
                       /\ \A a \in DOMAIN responseBuffer' :
                             responseBuffer'[a] = responseBuffer[a]
               ELSE UNCHANGED responseBuffer]_vars

\* A getValue has begun and awaits its send: it removed the entry of its address and
\* the entry of the other address is still in the buffer.
C27_Witness ==
    /\ reads[1].pc = "sending"
    /\ reads[1].stale # NoResponse
    /\ reads[1].path \notin DOMAIN responseBuffer
    /\ \E a \in DOMAIN responseBuffer : a # reads[1].path
    /\ client # NoClient
====
